---- MODULE Spec2Model ----
(***************************************************************************)
(* Model of ppl/lexer.py: the Symbol and Operator tables and the lazy      *)
(* scanner get_all_tokens, a generator driven by re.finditer.              *)
(*                                                                         *)
(* A character is a one-character string; a Python str is a sequence of    *)
(* characters.  Characters outside ASCII are written by code point:        *)
(* "u00A0" is NO-BREAK SPACE, "u00E9" is LATIN SMALL LETTER E WITH ACUTE.  *)
(***************************************************************************)
EXTENDS Integers, Sequences, FiniteSets, TLC

\* Longest input of a call in the single-call specification.
MaxLen == 3

\* Longest input of a call in the specification of several calls.
MaxLenCalls == 2

\* Longest input of the call in the specification with fairness.
MaxLenFair == 2

\* Most pulls a consumer makes on a generator that has already finished.
MaxExtraPulls == 1

\* Longest input of the call compared across orders of the alternation.
MaxLenOrders == 2

\* Longest input of the call that two readers pull from.
MaxLenReaders == 3

\* Longest line the harness reads, and the most lines it reads before the
\* end of its input.
MaxLineLen == 2

MaxLines == 2

\* Longest argument of a direct call of a table function.
MaxArgLen == 2

(***************************************************************************)
(* Character data                                                          *)
(***************************************************************************)

\* string.ascii_uppercase
ascii_uppercase ==
    << "A", "B", "C", "D", "E", "F", "G", "H", "I", "J", "K", "L", "M",
       "N", "O", "P", "Q", "R", "S", "T", "U", "V", "W", "X", "Y", "Z" >>

\* string.ascii_lowercase, the other half of the class [A-Za-z]
ascii_lowercase ==
    << "a", "b", "c", "d", "e", "f", "g", "h", "i", "j", "k", "l", "m",
       "n", "o", "p", "q", "r", "s", "t", "u", "v", "w", "x", "y", "z" >>

Range(f) == { f[i] : i \in DOMAIN f }

\* The class [A-Za-z] (string.ascii_letters).
ascii_letters == Range(ascii_uppercase) \cup Range(ascii_lowercase)

\* The characters the inputs of the model are made of: letters of both
\* cases, every operator glyph, both parentheses, ASCII and non-ASCII
\* whitespace, a digit, a punctuation character and a non-ASCII letter.
Chars ==
    { "A", "z", "!", "&", "|", "~", "=", "(", ")",
      " ", "\n", "u00A0", "1", "#", "u00E9" }

\* str.isalpha() on one character (the Unicode letter property), cut down
\* to the characters that can occur here.
IsAlphaChar(c) == c \in ascii_letters \cup {"u00E9", "u00C9"}

\* What \s matches in a str pattern: Unicode whitespace (str.isspace), cut
\* down to the characters that can occur here.
IsSpaceChar(c) == c \in {" ", "\t", "\n", "\r", "\f", "u00A0"}

\* The one-based index of the first c in hay at or after index i, or 0.
RECURSIVE IndexFrom(_, _, _)
IndexFrom(hay, c, i) ==
    IF i > Len(hay) THEN 0
    ELSE IF hay[i] = c THEN i
    ELSE IndexFrom(hay, c, i + 1)

\* The uppercase form of each lowercase ASCII letter.
to_upper ==
    [c \in Range(ascii_lowercase) |-> ascii_uppercase[IndexFrom(ascii_lowercase, c, 1)]]

\* str.upper() on one character.
UpperChar(c) ==
    IF c \in DOMAIN to_upper THEN to_upper[c]
    ELSE IF c = "u00E9" THEN "u00C9" ELSE c

\* str.find of a one-character needle: the zero-based index, or -1.
Find(hay, c) == IndexFrom(hay, c, 1) - 1

(***************************************************************************)
(* Symbol table                                                            *)
(***************************************************************************)

\* from_letter without the call of upper().
from_letterNoUpper(letter) ==
    IF Len(letter) # 1 THEN [ok |-> FALSE, value |-> -1]
    ELSE IF ~IsAlphaChar(letter[1]) THEN [ok |-> FALSE, value |-> -1]
    ELSE [ok |-> TRUE, value |-> Find(ascii_uppercase, letter[1])]

\* from_letter without the length check, reading the first character.
from_letterTruncate(letter) ==
    IF letter = <<>> THEN [ok |-> FALSE, value |-> -1]
    ELSE IF ~IsAlphaChar(letter[1]) THEN [ok |-> FALSE, value |-> -1]
    ELSE [ok |-> TRUE, value |-> Find(ascii_uppercase, UpperChar(letter[1]))]

\* Symbol.from_letter: a record [ok, value]; ok = FALSE is the ValueError.
from_letter(letter) ==
    IF Len(letter) # 1 THEN [ok |-> FALSE, value |-> -1]
    ELSE IF ~IsAlphaChar(letter[1]) THEN [ok |-> FALSE, value |-> -1]
    ELSE [ok |-> TRUE, value |-> Find(ascii_uppercase, UpperChar(letter[1]))]

\* __str__ indexing the alphabet one place too far.
Symbol_strShifted(n) ==
    [ok |-> TRUE, value |-> ascii_uppercase[((n + 1) % 26) + 1]]

\* Symbol.__str__: string.ascii_uppercase[self].  A negative index counts
\* from the end of the string; ok = FALSE is the IndexError of an index
\* out of range.
Symbol_str(n) ==
    IF n \in 0..25 THEN [ok |-> TRUE, value |-> ascii_uppercase[n + 1]]
    ELSE IF n \in -26..-1 THEN [ok |-> TRUE, value |-> ascii_uppercase[27 + n]]
    ELSE [ok |-> FALSE, value |-> "IndexError"]

(***************************************************************************)
(* Operator table                                                          *)
(***************************************************************************)

\* enum Operator, in definition order.
Operator ==
    << [name |-> "NEG",      input_form |-> <<"!">>, actual_form |-> "u00AC", priority |-> 100],
       [name |-> "CONJ",     input_form |-> <<"&">>, actual_form |-> "u2227", priority |-> 90],
       [name |-> "DISJ",     input_form |-> <<"|">>, actual_form |-> "u2228", priority |-> 80],
       [name |-> "MAT_COND", input_form |-> <<"~">>, actual_form |-> "u2192", priority |-> 70],
       [name |-> "BICOND",   input_form |-> <<"=">>, actual_form |-> "u2194", priority |-> 60] >>

\* from_input_form comparing only the first character of `form`.
from_input_formPrefix(form) ==
    IF form # <<>> /\ \E i \in DOMAIN Operator : Operator[i].input_form = << form[1] >>
    THEN [ok |-> TRUE,
          value |-> Operator[CHOOSE i \in DOMAIN Operator :
                        Operator[i].input_form = << form[1] >>].name]
    ELSE [ok |-> FALSE, value |-> "None"]

\* Operator.from_input_form: the first member whose input form is `form`;
\* ok = FALSE is the ValueError.
from_input_form(form) ==
    IF \E i \in DOMAIN Operator : Operator[i].input_form = form
    THEN [ok |-> TRUE,
          value |-> Operator[CHOOSE i \in DOMAIN Operator :
                        /\ Operator[i].input_form = form
                        /\ \A j \in 1..(i - 1) : Operator[j].input_form # form].name]
    ELSE [ok |-> FALSE, value |-> "None"]

(***************************************************************************)
(* The compiled pattern and re.finditer                                    *)
(***************************************************************************)

\* create_token_spec: the group names in the order of the alternation.
create_token_spec == << "SYMBOL", "OPERATOR", "PAREN", "SKIP", "MISMATCH" >>

\* The end of the maximal run of whitespace that starts at offset p.
RECURSIVE RunEnd(_, _)
RunEnd(s, p) ==
    IF p < Len(s) /\ IsSpaceChar(s[p + 1]) THEN RunEnd(s, p + 1) ELSE p

\* op_pattern: the escaped input forms joined by '|', tried in enum order.
\* The end offset of the first form found at offset p, or -1.
OpPatternEnd(s, p) ==
    LET hit(i) == /\ p + Len(Operator[i].input_form) <= Len(s)
                  /\ SubSeq(s, p + 1, p + Len(Operator[i].input_form))
                        = Operator[i].input_form
    IN IF \E i \in DOMAIN Operator : hit(i)
       THEN p + Len(Operator[CHOOSE i \in DOMAIN Operator :
                        hit(i) /\ \A j \in 1..(i - 1) : ~hit(j)].input_form)
       ELSE -1

\* The class [A-Za-z0-9] in place of [A-Za-z].
SymbolEndAlnum(s, p) ==
    IF s[p + 1] \in ascii_letters \cup {"0", "1", "2", "3", "4", "5", "6", "7", "8", "9"}
    THEN p + 1 ELSE -1

\* The class \w in place of [A-Za-z].
SymbolEndWord(s, p) ==
    IF IsAlphaChar(s[p + 1]) \/ s[p + 1] \in {"0", "1", "2", "3", "4", "5", "6", "7", "8", "9", "_"}
    THEN p + 1 ELSE -1

\* The alternative (?P<SYMBOL>[A-Za-z]) tried at offset p < Len(s): the end
\* offset of its match, or -1 when it does not match there.
SymbolEnd(s, p) ==
    IF s[p + 1] \in ascii_letters THEN p + 1 ELSE -1

\* The class [()!] in place of [()]: it shares '!' with the operators.
ParenEndWithBang(s, p) == IF s[p + 1] \in {"(", ")", "!"} THEN p + 1 ELSE -1

\* The alternative (?P<PAREN>[()]).
ParenEnd(s, p) == IF s[p + 1] \in {"(", ")"} THEN p + 1 ELSE -1

\* The pattern \s in place of \s+: one whitespace character per match.
SkipEndOne(s, p) == IF IsSpaceChar(s[p + 1]) THEN p + 1 ELSE -1

\* The pattern [ \t]+ in place of \s+: a newline is not whitespace.
SkipEndBlank(s, p) == IF s[p + 1] \in {" ", "\t"} THEN RunEnd(s, p) ELSE -1

\* The alternative (?P<SKIP>\s+): greedy, the whole run.
SkipEnd(s, p) == IF IsSpaceChar(s[p + 1]) THEN RunEnd(s, p) ELSE -1

\* The pattern .+ in place of . : the rest of the line.
RECURSIVE LineEnd(_, _)
LineEnd(s, p) == IF p < Len(s) /\ s[p + 1] # "\n" THEN LineEnd(s, p + 1) ELSE p

MismatchEndGreedy(s, p) == IF s[p + 1] # "\n" THEN LineEnd(s, p) ELSE -1

\* A zero-width pattern (?=.) in place of . : nothing is consumed.
MismatchEndEmpty(s, p) == IF s[p + 1] # "\n" THEN p ELSE -1

\* The alternative (?P<MISMATCH>.): any one character but a newline.
MismatchEnd(s, p) == IF s[p + 1] # "\n" THEN p + 1 ELSE -1

\* The alternative named `name` tried at offset p < Len(s).
AltEnd(name, s, p) ==
    CASE name = "SYMBOL" -> SymbolEnd(s, p)
      [] name = "OPERATOR" -> OpPatternEnd(s, p)
      [] name = "PAREN" -> ParenEnd(s, p)
      [] name = "SKIP" -> SkipEnd(s, p)
      [] name = "MISMATCH" -> MismatchEnd(s, p)

NoMatch == [lastgroup |-> "None", start |-> -1, end |-> -1]

\* The alternation anchored at offset p: the first alternative, in the
\* order of tokspec, that matches there.
MatchAt(tokspec, s, p) ==
    LET hits == { i \in DOMAIN tokspec : AltEnd(tokspec[i], s, p) # -1 }
    IN IF hits = {} THEN NoMatch
       ELSE LET i == CHOOSE k \in hits : \A j \in hits : k <= j
            IN [lastgroup |-> tokspec[i], start |-> p, end |-> AltEnd(tokspec[i], s, p)]

\* One iteration of pattern.finditer: the leftmost match that starts at or
\* after offset p (a search, so offsets where nothing matches are passed
\* over), or NoMatch when the iterator is exhausted.
RECURSIVE Search(_, _)
Search(s, p) ==
    IF p >= Len(s) THEN NoMatch
    ELSE LET m == MatchAt(create_token_spec, s, p)
         IN IF m # NoMatch THEN m ELSE Search(s, p + 1)

\* mat.end() in place of mat.start().
MatStartAsEnd(m) == m.end

\* The constant 0 in place of mat.start().
MatStartZero(m) == 0

\* mat.start()
MatStart(m) == m.start

\* mat.group()
Group(s, m) == SubSeq(s, m.start + 1, m.end)

(***************************************************************************)
(* Tokens and errors                                                       *)
(***************************************************************************)

\* AbstractToken and its subclasses: a dataclass of value and position.
Token(type, value, position) ==
    [type |-> type, value |-> value, position |-> position]

NoToken == Token("None", "None", -1)

NoError == [kind |-> "None", column |-> 0, char |-> <<>>]

\* The values interpolated into the LexicalAnalysisFailedError message.
LexicalAnalysisFailedError(column, char) ==
    [kind |-> "LexicalAnalysisFailedError", column |-> column, char |-> char]

RuntimeError == [kind |-> "RuntimeError", column |-> 0, char |-> <<>>]

ValueError == [kind |-> "ValueError", column |-> 0, char |-> <<>>]

\* What one pass through the body of the for loop does.
Yield(t) == [do |-> "yield", token |-> t, error |-> NoError]

Raise(e) == [do |-> "raise", token |-> NoToken, error |-> e]

Pass == [do |-> "pass", token |-> NoToken, error |-> NoError]

\* case 'SYMBOL': from_letter's ValueError is not caught.
OnSymbol(s, m) ==
    IF from_letter(Group(s, m)).ok
    THEN Yield(Token("SymbolToken", from_letter(Group(s, m)).value, MatStart(m)))
    ELSE Raise(ValueError)

\* case 'OPERATOR': from_input_form's ValueError becomes a RuntimeError.
OnOperator(s, m) ==
    IF from_input_form(Group(s, m)).ok
    THEN Yield(Token("OperatorToken", from_input_form(Group(s, m)).value, MatStart(m)))
    ELSE Raise(RuntimeError)

\* case 'PAREN'
OnParen(s, m) ==
    IF Group(s, m) = <<"(">> THEN Yield(Token("LeftParenToken", "None", MatStart(m)))
    ELSE IF Group(s, m) = <<")">> THEN Yield(Token("RightParenToken", "None", MatStart(m)))
    ELSE Raise(RuntimeError)

\* A whitespace run yielded as a token instead of passed over.
OnSkipYield(s, m) == Yield(Token("SkipToken", "None", m.start))

\* case 'SKIP'
OnSkip(s, m) == Pass

\* The mismatch passed over instead of raised: skip and continue.
OnMismatchSkip(s, m) == Pass

\* case 'MISMATCH'
OnMismatch(s, m) == Raise(LexicalAnalysisFailedError(MatStart(m) + 1, Group(s, m)))

\* The body of the for loop for one match: the match statement on
\* mat.lastgroup.
LoopBody(s, m) ==
    CASE m.lastgroup = "SYMBOL" -> OnSymbol(s, m)
      [] m.lastgroup = "OPERATOR" -> OnOperator(s, m)
      [] m.lastgroup = "PAREN" -> OnParen(s, m)
      [] m.lastgroup = "SKIP" -> OnSkip(s, m)
      [] m.lastgroup = "MISMATCH" -> OnMismatch(s, m)
      [] OTHER -> Raise(RuntimeError)

(***************************************************************************)
(* The generator as a state machine                                        *)
(***************************************************************************)

\* The calls of get_all_tokens the model follows.
Calls == {1, 2, 3}

VARIABLES
    input_str,  \* input_str[g]: the argument of call g
    pc,         \* pc[g]: "absent" (never called), "created" (not started),
                \*        "running" (inside next), "suspended" (at a yield),
                \*        "done" (returned), "raised" (ended by an exception)
    pos,        \* pos[g]: the offset the finditer iterator searches from
    out,        \* out[g]: the tokens the consumer has received, in order
    err,        \* err[g]: the exception that ended the generator, or NoError
    pulls,      \* pulls[g]: the next() calls made while the generator was live
    steps,      \* steps[g]: the matches the for loop has handled
    extra,      \* extra[g]: the next() calls made after the generator ended
    by,         \* by[g]: the reader that made each next() call, in call order
    seen,       \* seen[g][r]: what reader r was handed, each token with the
                \*             number of the pull that returned it
    raisedTo,   \* raisedTo[g]: the readers an exception was raised to
    tcall,      \* the last direct call of a table function, with its result
    hpc,        \* the harness: "idle" (not run), "reading" (at input()),
                \*              "listing" (a line was read), "exited"
                \*              (left the loop), "crashed" (uncaught error)
    lines,      \* the lines input() has returned, in order
    printed     \* what the harness has written to stdout, in order

\* The state of the calls of get_all_tokens.
scanVars == << input_str, pc, pos, out, err, pulls, steps, extra, by, seen, raisedTo >>

\* The state of the harness.
harnessVars == << hpc, lines, printed >>

vars == << scanVars, tcall, harnessVars >>

\* The logical readers that may pull from a token sequence.
Readers == {1, 2}

\* No table function has been called directly.
NoTableCall ==
    [fn |-> "None", arg |-> <<>>, ok |-> FALSE, symbol |-> 0,
     operator |-> "None", priority |-> 0, text |-> "None"]

\* Every string over Chars of length at most n.
Inputs(n) == UNION { [1..k -> Chars] : k \in 0..n }

\* A character that yields, one that is skipped and one that raises, for
\* the runs of several calls.
CallChars == { "A", " ", "#" }

CallInputs(n) == UNION { [1..k -> CallChars] : k \in 0..n }

\* The module after import: get_all_tokens has not been called.
Init ==
    /\ input_str = [g \in Calls |-> <<>>]
    /\ pc = [g \in Calls |-> "absent"]
    /\ pos = [g \in Calls |-> 0]
    /\ out = [g \in Calls |-> <<>>]
    /\ err = [g \in Calls |-> NoError]
    /\ pulls = [g \in Calls |-> 0]
    /\ steps = [g \in Calls |-> 0]
    /\ extra = [g \in Calls |-> 0]
    /\ by = [g \in Calls |-> <<>>]
    /\ seen = [g \in Calls |-> [r \in Readers |-> <<>>]]
    /\ raisedTo = [g \in Calls |-> <<>>]
    /\ tcall = NoTableCall
    /\ hpc = "idle"
    /\ lines = <<>>
    /\ printed = <<>>

\* get_all_tokens(s): the generator object is made and nothing of the body
\* runs before the first next().
Call(g, s) ==
    /\ pc[g] = "absent"
    /\ input_str' = [input_str EXCEPT ![g] = s]
    /\ pc' = [pc EXCEPT ![g] = "created"]
    /\ UNCHANGED << pos, out, err, pulls, steps, extra, by, seen, raisedTo >>
    /\ UNCHANGED << tcall, harnessVars >>

\* A cursor of its own for each reader, modelled at the hand-over: when the
\* reader changes, the scan starts again from offset 0.
CursorPerReader(g) ==
    IF Len(by[g]) > 1 /\ by[g][Len(by[g])] # by[g][Len(by[g]) - 1] THEN 0 ELSE pos[g]

\* One iterator shared by every call instead of one per call.
CursorShared(g) == pos[1]

\* The search offset held by the finditer iterator of call g.
Cursor(g) == pos[g]

\* next() called by reader r on a live generator: it resumes at the top of
\* the for loop.
PullBy(g, r) ==
    /\ pc[g] \in {"created", "suspended"}
    /\ pc' = [pc EXCEPT ![g] = "running"]
    /\ pulls' = [pulls EXCEPT ![g] = @ + 1]
    /\ by' = [by EXCEPT ![g] = Append(@, r)]
    /\ UNCHANGED << input_str, pos, out, err, steps, extra, seen, raisedTo >>
    /\ UNCHANGED << tcall, harnessVars >>

\* next() called by the one consumer of the sequence.
Pull(g) == PullBy(g, 1)

\* One iteration of the for loop: the next match is found and handled; the
\* generator yields a token, goes on, raises, or returns when the iterator
\* is exhausted.  m is the match (mat) and b what the body does with it.
ScanStep(g) ==
    /\ pc[g] = "running"
    /\ \E m \in { Search(input_str[g], Cursor(g)) } :
       \E b \in { LoopBody(input_str[g], m) } :
          IF m = NoMatch
          THEN /\ pc' = [pc EXCEPT ![g] = "done"]
               /\ UNCHANGED << pos, out, err, steps, seen, raisedTo >>
          ELSE /\ pos' = [pos EXCEPT ![g] = m.end]
               /\ steps' = [steps EXCEPT ![g] = @ + 1]
               /\ pc' = [pc EXCEPT ![g] =
                            CASE b.do = "yield" -> "suspended"
                              [] b.do = "pass" -> "running"
                              [] b.do = "raise" -> "raised"]
               /\ out' = [out EXCEPT ![g] =
                            IF b.do = "yield" THEN Append(@, b.token) ELSE @]
               /\ err' = [err EXCEPT ![g] =
                            IF b.do = "raise" THEN b.error ELSE @]
               /\ seen' = [seen EXCEPT ![g][by[g][Len(by[g])]] =
                            IF b.do = "yield"
                            THEN Append(@, [pull |-> Len(by[g]), token |-> b.token])
                            ELSE @]
               /\ raisedTo' = [raisedTo EXCEPT ![g] =
                            IF b.do = "raise" THEN Append(@, by[g][Len(by[g])]) ELSE @]
    /\ UNCHANGED << input_str, pulls, extra, by >>
    /\ UNCHANGED << tcall, harnessVars >>

\* A sequence that starts over when pulled after its end.
PullAfterEndRestart(g) ==
    /\ pc[g] \in {"done", "raised"}
    /\ extra[g] < MaxExtraPulls
    /\ extra' = [extra EXCEPT ![g] = @ + 1]
    /\ pc' = [pc EXCEPT ![g] = "created"]
    /\ pos' = [pos EXCEPT ![g] = 0]
    /\ err' = [err EXCEPT ![g] = NoError]
    /\ UNCHANGED << input_str, out, pulls, steps, by, seen, raisedTo >>
    /\ UNCHANGED << tcall, harnessVars >>

\* next() on a generator that has returned or raised: StopIteration, and
\* the frame is gone, so nothing else changes.
PullAfterEnd(g) ==
    /\ pc[g] \in {"done", "raised"}
    /\ extra[g] < MaxExtraPulls
    /\ extra' = [extra EXCEPT ![g] = @ + 1]
    /\ UNCHANGED << input_str, pc, pos, out, err, pulls, steps, by, seen, raisedTo >>
    /\ UNCHANGED << tcall, harnessVars >>

\* The consumer's pulls and the generator's steps, of any call made.
Run == \E g \in Calls : Pull(g) \/ ScanStep(g) \/ PullAfterEnd(g)

\* One call, on any input, consumed by one reader.
Next == (pc[1] = "absent" /\ \E s \in Inputs(MaxLen) : Call(1, s)) \/ Run

Spec == Init /\ [][Next]_vars

\* Three calls made at any moments: call 1 on any input, call 2 on the
\* input of call 1, call 3 on any input.
NextCalls ==
    \/ pc[1] = "absent" /\ \E s \in CallInputs(MaxLenCalls) : Call(1, s)
    \/ pc[1] # "absent" /\ Call(2, input_str[1])
    \/ pc[3] = "absent" /\ \E s \in CallInputs(MaxLenCalls) : Call(3, s)
    \/ Run

SpecCalls == Init /\ [][NextCalls]_vars

\* A pull of the consumer or a step of the running loop.
Advance == \E g \in Calls : Pull(g) \/ ScanStep(g)

\* One call, on any input of at most MaxLenFair characters.
NextFair == (pc[1] = "absent" /\ \E s \in Inputs(MaxLenFair) : Call(1, s)) \/ Run

NextOrders == (pc[1] = "absent" /\ \E s \in Inputs(MaxLenOrders) : Call(1, s)) \/ Run

\* One call, on the inputs that are compared across orders of the alternation.
SpecOrders == Init /\ [][NextOrders]_vars

NextReaders ==
    \/ pc[1] = "absent" /\ \E s \in CallInputs(MaxLenReaders) : Call(1, s)
    \/ \E r \in Readers : PullBy(1, r)
    \/ ScanStep(1)
    \/ PullAfterEnd(1)

\* One call whose generator two readers pull from, in any interleaving.
SpecReaders == Init /\ [][NextReaders]_vars

\* A consumer that keeps pulling: while the scan can go on, it does.
FairSpec == Init /\ [][NextFair]_vars /\ WF_vars(Advance)

(***************************************************************************)
(* Direct calls of the table functions                                     *)
(***************************************************************************)

\* The characters of the one-character arguments: every ASCII letter, the
\* characters of the inputs, and the uppercase non-ASCII letter.
TableChars == ascii_letters \cup Chars \cup {"u00C9"}

\* The characters of the longer arguments.
ArgChars == Chars \cup {"u00C9"}

\* The arguments of the direct calls: every one-character string, and every
\* string of at most n characters.
Args(n) ==
    { << c >> : c \in TableChars } \cup UNION { [1..k -> ArgChars] : k \in 0..n }

\* The member of the enum with the given name.
OperatorNamed(name) ==
    Operator[CHOOSE i \in DOMAIN Operator : Operator[i].name = name]

\* str(Symbol.from_letter(a)): the call, and the rendering of what it
\* returned.
CallFromLetter(a) ==
    /\ tcall = NoTableCall
    /\ \E r \in { from_letter(a) } :
        tcall' = [fn |-> "from_letter", arg |-> a, ok |-> r.ok,
                  symbol |-> r.value, operator |-> "None", priority |-> 0,
                  text |-> IF r.ok THEN Symbol_str(r.value).value ELSE "None"]
    /\ UNCHANGED << scanVars, harnessVars >>

\* Operator.from_input_form(a): the call, and the display glyph and the
\* priority of the member it returned.
CallFromInputForm(a) ==
    /\ tcall = NoTableCall
    /\ \E r \in { from_input_form(a) } :
        tcall' = [fn |-> "from_input_form", arg |-> a, ok |-> r.ok,
                  symbol |-> 0, operator |-> r.value,
                  priority |-> IF r.ok THEN OperatorNamed(r.value).priority ELSE 0,
                  text |-> IF r.ok THEN OperatorNamed(r.value).actual_form ELSE "None"]
    /\ UNCHANGED << scanVars, harnessVars >>

NextTables ==
    tcall = NoTableCall /\ \E a \in Args(MaxArgLen) : CallFromLetter(a) \/ CallFromInputForm(a)

\* One direct call of a table function, on any argument.
SpecTables == Init /\ [][NextTables]_vars

(***************************************************************************)
(* The harness under __main__                                              *)
(***************************************************************************)

\* The call of get_all_tokens made for the line read last.
LineCall == Len(lines)

\* The error printed together with the tokens yielded before it.
HarnessOutputPartial(tokens, error) ==
    IF error = NoError
    THEN [kind |-> "tokens", tokens |-> tokens, message |-> NoError]
    ELSE [kind |-> "message", tokens |-> tokens, message |-> error]

\* What the harness writes for one line: pprint of the list when list()
\* returned, print(e) when the LexicalAnalysisFailedError was caught.
HarnessOutput(tokens, error) ==
    IF error = NoError
    THEN [kind |-> "tokens", tokens |-> tokens, message |-> NoError]
    ELSE [kind |-> "message", tokens |-> <<>>, message |-> error]

\* The module is run as a script: the while loop is entered.
Main ==
    /\ hpc = "idle"
    /\ hpc' = "reading"
    /\ UNCHANGED << scanVars, tcall, lines, printed >>

\* input('? ') returns the line s (without its newline), and
\* get_all_tokens(s) makes the generator of this line.
ReadLine(s) ==
    /\ hpc = "reading"
    /\ Len(lines) < MaxLines
    /\ Len(lines) + 1 \in Calls
    /\ pc[Len(lines) + 1] = "absent"
    /\ lines' = Append(lines, s)
    /\ input_str' = [input_str EXCEPT ![Len(lines) + 1] = s]
    /\ pc' = [pc EXCEPT ![Len(lines) + 1] = "created"]
    /\ hpc' = "listing"
    /\ UNCHANGED << pos, out, err, pulls, steps, extra, by, seen, raisedTo >>
    /\ UNCHANGED << tcall, printed >>

\* input('? ') raises EOFError: break.
ReadEOF ==
    /\ hpc = "reading"
    /\ hpc' = "exited"
    /\ UNCHANGED << scanVars, tcall, lines, printed >>

\* list(...) pulls from the generator of the line until it ends.
ListStep ==
    /\ hpc = "listing"
    /\ PullBy(LineCall, 1) \/ ScanStep(LineCall)

\* The generator has ended: the list is printed, or the caught error is;
\* any other exception leaves the loop uncaught.
PrintResult ==
    /\ hpc = "listing"
    /\ pc[LineCall] \in {"done", "raised"}
    /\ IF err[LineCall].kind \in {"None", "LexicalAnalysisFailedError"}
       THEN /\ printed' = Append(printed, HarnessOutput(out[LineCall], err[LineCall]))
            /\ hpc' = "reading"
       ELSE /\ printed' = printed
            /\ hpc' = "crashed"
    /\ UNCHANGED << scanVars, tcall, lines >>

NextHarness ==
    \/ Main
    \/ hpc = "reading" /\ \E s \in CallInputs(MaxLineLen) : ReadLine(s)
    \/ ReadEOF
    \/ ListStep
    \/ PrintResult

\* The harness, fed any lines and then the end of its input.
SpecHarness == Init /\ [][NextHarness]_vars

(***************************************************************************)
(* Vocabulary of the properties                                            *)
(***************************************************************************)

Letters == { "A", "B", "C", "D", "E", "F", "G", "H", "I", "J", "K", "L", "M",
             "N", "O", "P", "Q", "R", "S", "T", "U", "V", "W", "X", "Y", "Z",
             "a", "b", "c", "d", "e", "f", "g", "h", "i", "j", "k", "l", "m",
             "n", "o", "p", "q", "r", "s", "t", "u", "v", "w", "x", "y", "z" }

Glyphs == { "!", "&", "|", "~", "=" }

Parens == { "(", ")" }

\* Whitespace in the sense of Python: str.isspace().
Whitespace == { " ", "\t", "\n", "\r", "\f", "u00A0" }

Digits == { "0", "1", "2", "3", "4", "5", "6", "7", "8", "9" }

NonAscii == { "u00A0", "u00E9" }

\* The ASCII punctuation of the inputs that is neither an operator glyph
\* nor a parenthesis.
OtherPunctuation == { "#" }

Meaningful == Letters \cup Glyphs \cup Parens \cup Whitespace

Live(g) == pc[g] # "absent"

Ended(g) == pc[g] \in {"done", "raised"}

\* The letter's case-insensitive index in A..Z.
LetterIndex(c) ==
    CHOOSE i \in 0..25 : ascii_uppercase[i + 1] = c \/ ascii_lowercase[i + 1] = c

\* The catalogue entry with input glyph c.
GlyphOperator(c) ==
    (CHOOSE i \in DOMAIN Operator : Operator[i].input_form = <<c>>)

\* The token a meaningful non-whitespace character at offset p stands for.
ExpectedToken(c, p) ==
    CASE c \in Letters -> Token("SymbolToken", LetterIndex(c), p)
      [] c \in Glyphs -> Token("OperatorToken", Operator[GlyphOperator(c)].name, p)
      [] c = "(" -> Token("LeftParenToken", "None", p)
      [] c = ")" -> Token("RightParenToken", "None", p)
      [] OTHER -> NoToken

\* The tokens of the non-whitespace characters at offsets below k, in order.
RECURSIVE ExpectedBelow(_, _)
ExpectedBelow(s, k) ==
    IF k = 0 THEN <<>>
    ELSE IF s[k] \in Whitespace THEN ExpectedBelow(s, k - 1)
    ELSE Append(ExpectedBelow(s, k - 1), ExpectedToken(s[k], k - 1))

\* The offset of the leftmost character of s in the set bad, or Len(s).
FirstIn(s, bad) ==
    IF \E i \in DOMAIN s : s[i] \in bad
    THEN (CHOOSE i \in DOMAIN s : s[i] \in bad /\ \A j \in 1..(i - 1) : s[j] \notin bad) - 1
    ELSE Len(s)

\* The offset of the leftmost character that is not meaningful, or Len(s).
FirstBad(s) == FirstIn(s, Chars \ Meaningful)

\* The letters outside ASCII that can occur here.
NonAsciiLetters == { "u00E9", "u00C9" }

\* The alphabetic characters: the letters of any script.
Alphabetic == Letters \cup NonAsciiLetters

\* c.upper() for an ASCII letter c.
AsciiUpper(c) == ascii_uppercase[LetterIndex(c) + 1]

\* The other-case form of an ASCII letter c.
SwapCase(c) ==
    IF c = ascii_uppercase[LetterIndex(c) + 1]
    THEN ascii_lowercase[LetterIndex(c) + 1]
    ELSE ascii_uppercase[LetterIndex(c) + 1]

\* The uppercase form of an alphabetic character.
UpperForm(c) ==
    IF c \in Letters THEN AsciiUpper(c)
    ELSE IF c \in NonAsciiLetters THEN "u00C9" ELSE c

\* The catalogue: input glyph, operator, display glyph, priority.
Catalogue ==
    { << "!", "NEG", "u00AC", 100 >>,
      << "&", "CONJ", "u2227", 90 >>,
      << "|", "DISJ", "u2228", 80 >>,
      << "~", "MAT_COND", "u2192", 70 >>,
      << "=", "BICOND", "u2194", 60 >> }

\* The orders in which the alternation may try its alternatives: any
\* order of the first four, the mismatch last.
Orders ==
    { o \in [DOMAIN create_token_spec -> Range(create_token_spec)] :
        /\ o[Len(create_token_spec)] = "MISMATCH"
        /\ \A i, j \in DOMAIN o : o[i] = o[j] => i = j }

\* The search of a scanner that tries the alternatives in the order tokspec.
RECURSIVE SearchIn(_, _, _)
SearchIn(tokspec, s, p) ==
    IF p >= Len(s) THEN NoMatch
    ELSE LET m == MatchAt(tokspec, s, p)
         IN IF m # NoMatch THEN m ELSE SearchIn(tokspec, s, p + 1)

\* The whole scan of s from offset p by the scanner of order tokspec: the
\* tokens it yields after those of acc, and the error that ends it.
RECURSIVE ScanWith(_, _, _, _)
ScanWith(tokspec, s, p, acc) ==
    LET m == SearchIn(tokspec, s, p)
        b == LoopBody(s, m)
    IN IF m = NoMatch THEN [tokens |-> acc, error |-> NoError]
       ELSE IF b.do = "raise" THEN [tokens |-> acc, error |-> b.error]
       ELSE ScanWith(tokspec, s, m.end,
                     IF b.do = "yield" THEN Append(acc, b.token) ELSE acc)

\* The classes, among letter, operator glyph, parenthesis and whitespace,
\* whose alternative matches at offset p of s.
ClassesAt(s, p) ==
    { n \in {"SYMBOL", "OPERATOR", "PAREN", "SKIP"} : AltEnd(n, s, p) # -1 }

\* The tokens a reader was handed, in the order it received them.
TokensOf(sq) == [i \in DOMAIN sq |-> sq[i].token]

\* Everything handed to the readers of call g, each token with its pull.
Delivered(g) == UNION { Range(seen[g][r]) : r \in Readers }

\* The tokens handed to the readers of call g, merged in pull order.
Merged(g) ==
    [i \in 1..Cardinality(Delivered(g)) |->
        (CHOOSE e \in Delivered(g) :
            Cardinality({ f \in Delivered(g) : f.pull < e.pull }) = i - 1).token]

\* The sequence a single reader gets from the input s.
SingleReader(s) == ScanWith(create_token_spec, s, 0, <<>>)

IsPrefix(a, b) == Len(a) <= Len(b) /\ a = SubSeq(b, 1, Len(a))

(***************************************************************************)
(* Properties                                                              *)
(***************************************************************************)

\* C1: on an input made only of ASCII letters, operator glyphs, parentheses
\* and whitespace the scan never raises, and once fully consumed it has
\* yielded exactly one token per non-whitespace character, in input order:
\* a letter the SymbolToken of its index in A..Z whatever its case, a glyph
\* the OperatorToken of its catalogue entry, '(' and ')' the paren tokens;
\* the empty input yields nothing.
C1_TokensOfMeaningfulInput ==
    \A g \in Calls :
        (Live(g) /\ FirstBad(input_str[g]) = Len(input_str[g])) =>
            /\ pc[g] # "raised"
            /\ err[g] = NoError
            /\ pc[g] = "done" =>
                   out[g] = ExpectedBelow(input_str[g], Len(input_str[g]))

C1_Witness ==
    /\ pc[1] = "done"
    /\ input_str[1] = << "z", " ", "=" >>
    /\ Len(out[1]) = 2

\* C2: every token emitted, also in a scan that fails later, carries the
\* zero-based offset in the original input of the character it was made
\* from: the character at that offset is the token's character, whatever
\* whitespace was skipped before it.
C2_PositionIsOffset ==
    \A g \in Calls : \A i \in DOMAIN out[g] :
        /\ out[g][i].position \in 0..(Len(input_str[g]) - 1)
        /\ out[g][i] = ExpectedToken(input_str[g][out[g][i].position + 1],
                                     out[g][i].position)

C2_Witness ==
    /\ pc[1] = "raised"
    /\ input_str[1] = << "\n", "A", "#" >>
    /\ Len(out[1]) = 1
    /\ out[1][1].position = 1

\* C3: when the input holds a character that is no ASCII letter, operator
\* glyph, parenthesis or whitespace, a scan consumed to its end has failed
\* with LexicalAnalysisFailedError, reporting the leftmost such character
\* and its 1-based column (its offset plus one).
C3_MismatchReported ==
    \A g \in Calls :
        (Live(g) /\ Ended(g) /\ FirstBad(input_str[g]) < Len(input_str[g])) =>
            /\ pc[g] = "raised"
            /\ err[g] = [kind |-> "LexicalAnalysisFailedError",
                         column |-> FirstBad(input_str[g]) + 1,
                         char |-> << input_str[g][FirstBad(input_str[g]) + 1] >>]

C3_Witness ==
    /\ pc[1] = "raised"
    /\ input_str[1] = << "A", "#", "1" >>
    /\ err[1].column = 2

\* C4: the scan is fail-fast: no token is ever emitted for a character at or
\* after the first unrecognized one, and once the error is raised the
\* sequence is over: further pulls yield no token and move no cursor.
C4_FailFast ==
    /\ [](\A g \in Calls : \A i \in DOMAIN out[g] :
            out[g][i].position < FirstBad(input_str[g]))
    /\ [][\A g \in Calls :
            pc[g] = "raised" =>
                /\ pc'[g] = "raised"
                /\ out'[g] = out[g]
                /\ pos'[g] = pos[g]
                /\ err'[g] = err[g]]_vars

C4_Witness ==
    /\ pc[1] = "raised"
    /\ extra[1] > 0
    /\ input_str[1] = << "A", "#", "z" >>
    /\ Len(out[1]) = 1

\* C5: when the first invalid character is at offset k, the consumer is
\* handed, one per pull and in order, the tokens of the non-whitespace
\* characters below k; the error is raised by the pull after the last of
\* them and by no earlier pull.
C5_PartialResults ==
    \A g \in Calls :
        (Live(g) /\ FirstBad(input_str[g]) < Len(input_str[g])) =>
            LET E == ExpectedBelow(input_str[g], FirstBad(input_str[g]))
            IN /\ IsPrefix(out[g], E)
               /\ pc[g] = "suspended" => Len(out[g]) = pulls[g]
               /\ pulls[g] <= Len(E) => (pc[g] # "raised" /\ err[g] = NoError)
               /\ pc[g] = "raised" => (out[g] = E /\ pulls[g] = Len(E) + 1)

C5_Witness ==
    /\ pc[1] = "raised"
    /\ FirstBad(input_str[1]) = 2
    /\ Len(out[1]) = 2
    /\ pulls[1] = 3

\* C6: a scan step at a whitespace character moves the cursor past the whole
\* maximal run of whitespace and emits nothing; a step at a letter, an
\* operator glyph or a parenthesis moves the cursor by exactly one.
C6_StepWidth ==
    [][\A g \in Calls :
        steps'[g] = steps[g] + 1 =>
            LET s == input_str[g]
                c == s[pos[g] + 1]
            IN /\ c \in Whitespace =>
                    /\ out'[g] = out[g]
                    /\ pos'[g] > pos[g]
                    /\ \A q \in (pos[g] + 1)..pos'[g] : s[q] \in Whitespace
                    /\ pos'[g] < Len(s) => s[pos'[g] + 1] \notin Whitespace
               /\ c \in Letters \cup Glyphs \cup Parens =>
                    pos'[g] = pos[g] + 1]_vars

C6_Witness ==
    /\ input_str[1] = << " ", "\n", "A" >>
    /\ pc[1] = "running"
    /\ steps[1] = 1
    /\ pos[1] = 2
    /\ out[1] = <<>>

\* C7 as stated: every digit, every punctuation character that is no
\* operator glyph or parenthesis and every non-ASCII character makes the
\* scan fail at it: a scan consumed to its end has raised
\* LexicalAnalysisFailedError at the leftmost such character.
C7_EveryOutsiderFails ==
    \A g \in Calls :
        LET bad == Digits \cup OtherPunctuation \cup NonAscii
            k == FirstIn(input_str[g], bad)
        IN (Live(g) /\ Ended(g) /\ k < Len(input_str[g])) =>
              /\ pc[g] = "raised"
              /\ err[g].kind = "LexicalAnalysisFailedError"
              /\ err[g].column = k + 1

\* C7 as amended: every digit, every punctuation character that is no
\* operator glyph or parenthesis and every non-ASCII character that is not
\* whitespace makes the scan fail at it; no such character is ever made a
\* token, and the cursor never passes one without the error being raised.
C7_NonSpaceOutsiderFails ==
    \A g \in Calls :
        LET bad == Digits \cup OtherPunctuation \cup (NonAscii \ Whitespace)
            k == FirstIn(input_str[g], bad)
        IN (Live(g) /\ k < Len(input_str[g])) =>
              /\ \A i \in DOMAIN out[g] :
                    input_str[g][out[g][i].position + 1] \notin bad
              /\ pos[g] > k => pc[g] = "raised"
              /\ Ended(g) =>
                    /\ pc[g] = "raised"
                    /\ err[g] = LexicalAnalysisFailedError(k + 1, << input_str[g][k + 1] >>)

C7_Witness ==
    /\ pc[1] = "raised"
    /\ input_str[1] = << "u00A0", "u00E9", "1" >>
    /\ err[1].column = 2

\* C8: LexicalAnalysisFailedError is the only error a scan ever raises: the
\* ValueError of from_letter and the RuntimeError branches are never taken.
C8_OnlyLexicalError ==
    \A g \in Calls :
        /\ err[g].kind \in {"None", "LexicalAnalysisFailedError"}
        /\ pc[g] = "raised" <=> err[g].kind = "LexicalAnalysisFailedError"

C8_Witness ==
    /\ pc[1] = "done"
    /\ Len(out[1]) = 3
    /\ out[1][1].type = "SymbolToken"
    /\ out[1][2].type = "OperatorToken"
    /\ out[1][3].type = "RightParenToken"

\* C9: a consumer that keeps pulling reaches the end of the scan, by
\* exhaustion or by the error; every scan step moves the cursor forward by
\* at least one character, so there are at most Len(input) steps.
C9_Terminates ==
    /\ <>[](\A g \in Calls : Live(g) => Ended(g))
    /\ [](\A g \in Calls : steps[g] <= Len(input_str[g]) /\ pos[g] <= Len(input_str[g]))
    /\ [][\A g \in Calls : steps'[g] = steps[g] + 1 => pos'[g] >= pos[g] + 1]_vars

C9_Witness ==
    /\ pc[1] = "done"
    /\ Len(input_str[1]) = 2
    /\ steps[1] = 2
    /\ pos[1] = 2

\* C10: two fresh calls on the same input, run in any interleaving with each
\* other and with a call on another input, agree: at every moment the
\* tokens of one are a prefix of the tokens of the other, and when both have
\* ended they have yielded equal sequences and ended the same way, with the
\* same column and character if they failed.
C10_Deterministic ==
    (Live(1) /\ Live(2) /\ input_str[1] = input_str[2]) =>
        /\ IsPrefix(out[1], out[2]) \/ IsPrefix(out[2], out[1])
        /\ (Ended(1) /\ Ended(2)) =>
              /\ out[1] = out[2]
              /\ pc[1] = pc[2]
              /\ err[1] = err[2]

C10_Witness ==
    /\ input_str[1] = << "A", "#" >>
    /\ input_str[2] = << "A", "#" >>
    /\ input_str[3] = << " ", "A" >>
    /\ pc[1] = "raised"
    /\ pc[2] = "raised"
    /\ pc[3] = "done"
    /\ Len(out[1]) = 1

\* C11: a token sequence is forward-only and cannot be restarted: its cursor
\* never moves backward, and once it is exhausted or has raised, a further
\* pull changes nothing of it: no token, no new error, no new scan of the
\* input.
C11_ForwardOnly ==
    [][\A g \in Calls :
        /\ pos'[g] >= pos[g]
        /\ Ended(g) =>
            /\ pc'[g] = pc[g]
            /\ pos'[g] = pos[g]
            /\ out'[g] = out[g]
            /\ err'[g] = err[g]
            /\ steps'[g] = steps[g]
            /\ input_str'[g] = input_str[g]]_vars

C11_Witness ==
    /\ pc[1] = "done"
    /\ extra[1] > 0
    /\ input_str[1] = << "A", " ", "z" >>
    /\ Len(out[1]) = 2

\* C12: for every single uppercase or lowercase ASCII letter c,
\* str(Symbol.from_letter(c)) is c.upper(), and c and its other-case form
\* map to the same Symbol.
C12_SymbolRoundTrip ==
    (tcall.fn = "from_letter" /\ Len(tcall.arg) = 1 /\ tcall.arg[1] \in Letters) =>
        /\ tcall.ok
        /\ tcall.text = AsciiUpper(tcall.arg[1])
        /\ from_letter(<< SwapCase(tcall.arg[1]) >>).ok
        /\ from_letter(<< SwapCase(tcall.arg[1]) >>).value = tcall.symbol

C12_Witness ==
    /\ tcall.fn = "from_letter"
    /\ tcall.arg = << "q" >>
    /\ tcall.ok
    /\ tcall.text = "Q"
    /\ tcall.symbol = 16

\* C13: every Symbol that from_letter returns is an identifier in [0, 25]
\* that renders as the uppercase form of the accepted character, so that
\* identifiers and the 26 uppercase letters correspond one to one.
C13_SymbolInRange ==
    (tcall.fn = "from_letter" /\ tcall.ok) =>
        /\ tcall.symbol \in 0..25
        /\ tcall.text = UpperForm(tcall.arg[1])
        /\ tcall.text \in Letters

\* C14: from_letter rejects every argument that is not exactly one
\* alphabetic character (the empty string, every string of two or more
\* characters, every single non-letter character) and returns no Symbol.
C14_RejectsNonLetter ==
    (/\ tcall.fn = "from_letter"
     /\ ~(Len(tcall.arg) = 1 /\ tcall.arg[1] \in Alphabetic)) =>
        /\ ~tcall.ok
        /\ tcall.text = "None"

C14_Witness ==
    /\ tcall.fn = "from_letter"
    /\ tcall.arg = << "A", "z" >>
    /\ ~tcall.ok

\* C15: the catalogue has exactly five entries with pairwise distinct
\* input glyphs; from_input_form maps '!', '&', '|', '~', '=' to negation,
\* conjunction, disjunction, material conditional and biconditional with
\* their display glyphs and priorities, and fails on every other string.
C15_OperatorLookup ==
    /\ Len(Operator) = 5
    /\ \A i, j \in DOMAIN Operator :
            Operator[i].input_form = Operator[j].input_form => i = j
    /\ tcall.fn = "from_input_form" =>
        IF \E e \in Catalogue : tcall.arg = << e[1] >>
        THEN \E e \in Catalogue :
                /\ tcall.arg = << e[1] >>
                /\ tcall.ok
                /\ tcall.operator = e[2]
                /\ tcall.text = e[3]
                /\ tcall.priority = e[4]
        ELSE ~tcall.ok /\ tcall.operator = "None"

C15_Witness ==
    /\ tcall.fn = "from_input_form"
    /\ tcall.arg = << "~" >>
    /\ tcall.ok
    /\ tcall.operator = "MAT_COND"
    /\ tcall.priority = 70

\* C16: at every character at most one of the classes letter, operator
\* glyph, parenthesis and whitespace matches, and a scanner that tries the
\* four alternatives in any order, the mismatch last, yields the same tokens
\* and the same error as the scan in the fixed order.
C16_OrderIndependent ==
    \A g \in Calls :
        /\ pc[g] = "created" =>
            /\ \A p \in 0..(Len(input_str[g]) - 1) :
                    Cardinality(ClassesAt(input_str[g], p)) <= 1
            /\ \A o \in Orders :
                    ScanWith(o, input_str[g], 0, <<>>)
                        = ScanWith(create_token_spec, input_str[g], 0, <<>>)
        /\ Ended(g) =>
            \A o \in {<< "SKIP", "PAREN", "OPERATOR", "SYMBOL", "MISMATCH" >>} :
                /\ out[g] = ScanWith(o, input_str[g], 0, <<>>).tokens
                /\ err[g] = ScanWith(o, input_str[g], 0, <<>>).error

C16_Witness ==
    /\ pc[1] = "raised"
    /\ input_str[1] = << "!", "#" >>
    /\ Len(out[1]) = 1
    /\ << "SKIP", "PAREN", "OPERATOR", "SYMBOL", "MISMATCH" >> \in Orders
    /\ Cardinality(Orders) = 24

\* C17: no character is passed over: every match starts where the scan
\* stands (offset 0 at first, then the end of the previous match), for
\* every character including the newline, and a scan that ends without
\* error stands at len(input).
C17_NoCharacterPassedOver ==
    \A g \in Calls :
        /\ (pc[g] = "created") => pos[g] = 0
        /\ (pc[g] = "running" /\ pos[g] < Len(input_str[g])) =>
            /\ Search(input_str[g], pos[g]) # NoMatch
            /\ Search(input_str[g], pos[g]).start = pos[g]
            /\ Search(input_str[g], pos[g]).end > pos[g]
        /\ (pc[g] = "done") => pos[g] = Len(input_str[g])

C17_Witness ==
    /\ pc[1] = "done"
    /\ input_str[1] = << "A", "\n", "z" >>
    /\ pos[1] = 3
    /\ steps[1] = 3
    /\ Len(out[1]) = 2

\* C18: in every token sequence, complete or cut short by an error, the
\* token positions are strictly increasing in emission order and each lies
\* in [0, len(input) - 1].
C18_PositionsIncrease ==
    \A g \in Calls :
        /\ \A i \in DOMAIN out[g] :
                out[g][i].position \in 0..(Len(input_str[g]) - 1)
        /\ \A i, j \in DOMAIN out[g] :
                i < j => out[g][i].position < out[g][j].position

C18_Witness ==
    /\ pc[1] = "raised"
    /\ input_str[1] = << "A", "z", "#" >>
    /\ Len(out[1]) = 2
    /\ out[1][1].position = 0
    /\ out[1][2].position = 1

\* C19: when two readers interleave pulls on one token sequence, every
\* token goes to exactly one of them, the tokens merged in pull order are
\* the sequence a single reader gets, neither reader has the complete
\* sequence unless the other received no token, and the lexical error is
\* raised to exactly one reader.
C19_ReadersShareCursor ==
    \A g \in Calls :
        /\ \A e, f \in Delivered(g) : e.pull = f.pull => e = f
        /\ \A r1, r2 \in Readers :
                r1 # r2 => Range(seen[g][r1]) \cap Range(seen[g][r2]) = {}
        /\ \A r \in Readers : \A i, j \in DOMAIN seen[g][r] :
                i < j => seen[g][r][i].pull < seen[g][r][j].pull
        /\ Len(seen[g][1]) + Len(seen[g][2]) = Len(out[g])
        /\ Merged(g) = out[g]
        /\ Live(g) => IsPrefix(Merged(g), SingleReader(input_str[g]).tokens)
        /\ Ended(g) => Merged(g) = SingleReader(input_str[g]).tokens
        /\ \A r1, r2 \in Readers :
                (/\ r1 # r2
                 /\ Ended(g)
                 /\ TokensOf(seen[g][r1]) = SingleReader(input_str[g]).tokens)
                    => seen[g][r2] = <<>>
        /\ err[g].kind = "LexicalAnalysisFailedError" =>
                /\ Len(raisedTo[g]) = 1
                /\ raisedTo[g][1] = by[g][Len(by[g])]
        /\ err[g] = NoError => raisedTo[g] = <<>>

C19_Witness ==
    /\ pc[1] = "raised"
    /\ input_str[1] = << "A", "A", "#" >>
    /\ by[1] = << 1, 2, 1 >>
    /\ Len(seen[1][1]) = 1
    /\ Len(seen[1][2]) = 1
    /\ raisedTo[1] = << 1 >>
    /\ extra[1] > 0

\* C20: for every line the harness prints exactly one thing, the complete
\* token list or, for a line that fails, the error message and no token;
\* after an error it is back at the prompt; it never ends on an uncaught
\* error, and it stops only when the read meets the end of its input.
C20_HarnessLoop ==
    /\ [](/\ hpc # "crashed"
          /\ Len(printed) = Len(lines) - (IF hpc = "listing" THEN 1 ELSE 0)
          /\ \A i \in DOMAIN printed :
                IF FirstBad(lines[i]) = Len(lines[i])
                THEN /\ printed[i].kind = "tokens"
                     /\ printed[i].tokens = ExpectedBelow(lines[i], Len(lines[i]))
                     /\ printed[i].message = NoError
                ELSE /\ printed[i].kind = "message"
                     /\ printed[i].tokens = <<>>
                     /\ printed[i].message.kind = "LexicalAnalysisFailedError"
                     /\ printed[i].message.column = FirstBad(lines[i]) + 1
                     /\ printed[i].message.char = << lines[i][FirstBad(lines[i]) + 1] >>)
    /\ [][/\ printed' # printed => (hpc = "listing" /\ hpc' = "reading")
          /\ (hpc = "listing" /\ hpc' # "listing") => hpc' = "reading"
          /\ (hpc' = "exited" /\ hpc # "exited") =>
                (hpc = "reading" /\ lines' = lines /\ printed' = printed)
          /\ hpc = "exited" => UNCHANGED vars]_vars

C20_Witness ==
    /\ hpc = "exited"
    /\ lines = << << "A", "#" >>, << " ", "A" >> >>
    /\ Len(printed) = 2
    /\ printed[1].kind = "message"
    /\ printed[2].kind = "tokens"
    /\ Len(printed[2].tokens) = 1

====
